---- MODULE Spec2Model ----
(***************************************************************************)
(* Model of RaspberrypiScopeV1.py: the BallisticCalculator class (table    *)
(* lookups, wind resolver, click conversion) and its polling loop run().   *)
(*                                                                         *)
(* Numbers.  Python floats are modelled as exact rationals <<n, d>> in     *)
(* lowest terms with d > 0.  Every decimal literal of the source (-1.92,   *)
(* 1.047, 91.44, ...) is taken at its decimal value.  math.sin is exact on *)
(* the angles enumerated in sin_radians, together with the sign of the     *)
(* IEEE residue where the exact sine is zero (sin(radians(180)) is         *)
(* 1.22e-16, not 0).  A drift value is therefore <<n, d, e>>: the rational *)
(* n/d plus e times a positive infinitesimal.                              *)
(* None is the empty tuple <<>>; a NamedTuple is a tuple.                  *)
(***************************************************************************)
EXTENDS Integers, Sequences, FiniteSets, TLC

None == <<>>

--------------------------------------------------------------------------
(* Rational arithmetic (the float operators +, -, *, /, <, abs, round).    *)

Abs(x) == IF x < 0 THEN -x ELSE x

Sgn(x) == IF x < 0 THEN -1 ELSE IF x > 0 THEN 1 ELSE 0

RECURSIVE GCD(_, _)
GCD(a, b) == IF b = 0 THEN a ELSE GCD(b, a % b)

Norm(n, d) ==
    LET g == GCD(Abs(n), Abs(d))
        s == IF d < 0 THEN -1 ELSE 1
    IN  <<(s * n) \div g, (s * d) \div g>>

FromInt(i) == <<i, 1>>

RNeg(x) == <<-x[1], x[2]>>

RAdd(x, y) ==
    LET g == GCD(x[2], y[2])
        l == (x[2] \div g) * y[2]
    IN  Norm(x[1] * (l \div x[2]) + y[1] * (l \div y[2]), l)

RSub(x, y) == RAdd(x, RNeg(y))

RMul(x, y) ==
    LET g1 == GCD(Abs(x[1]), y[2])
        g2 == GCD(Abs(y[1]), x[2])
    IN  Norm((x[1] \div g1) * (y[1] \div g2), (x[2] \div g2) * (y[2] \div g1))

RDiv(x, y) == RMul(x, IF y[1] < 0 THEN <<-y[2], -y[1]>> ELSE <<y[2], y[1]>>)

RLt(x, y) == x[1] * y[2] < y[1] * x[2]

RAbs(x) == <<Abs(x[1]), x[2]>>

\* Python 3 round(x): nearest integer, ties to the even one.
round(x) ==
    LET a   == Abs(x[1])
        f   == a \div x[2]
        r   == a % x[2]
        up  == IF 2 * r > x[2] THEN f + 1
               ELSE IF 2 * r < x[2] THEN f
               ELSE IF f % 2 = 0 THEN f ELSE f + 1
    IN  Sgn(x[1]) * up

\* Python 3 round(x, 1): nearest multiple of 0.1, as a rational.
round1(x) == Norm(round(RMul(x, FromInt(10))), 10)

\* int(x): truncation toward zero.
int(x) == Sgn(x[1]) * (Abs(x[1]) \div x[2])

--------------------------------------------------------------------------
(* Class constants and the tables as written in the source.                *)

\* A decimal literal n / 10^k, given as n and the power of ten.
Dec(n, scale) == Norm(n, scale)

MOA_CONVERSION == Dec(1047, 1000)

CLICKS_PER_MOA == 4

\* Centimetres per yard, the divisor 91.44 of get_distance.
CM_PER_YARD == Dec(9144, 100)

\* The literal of __init__: distance in yards -> drop in inches.
DROP_TABLE ==
    (100 :> Dec(-192, 100))   @@ (200 :> Dec(-973, 100))   @@
    (300 :> Dec(-2462, 100))  @@ (400 :> Dec(-4811, 100))  @@
    (500 :> Dec(-8123, 100))  @@ (600 :> Dec(-12547, 100)) @@
    (700 :> Dec(-18231, 100)) @@ (800 :> Dec(-25315, 100)) @@
    (900 :> Dec(-33984, 100)) @@ (1000 :> Dec(-44427, 100))

\* The class literal: distance in yards -> drift in inches at 10 mph.
DRIFT_TABLE ==
    (100 :> Dec(5, 10))   @@ (200 :> Dec(21, 10))  @@
    (300 :> Dec(49, 10))  @@ (400 :> Dec(90, 10))  @@
    (500 :> Dec(146, 10)) @@ (600 :> Dec(218, 10)) @@
    (700 :> Dec(309, 10)) @@ (800 :> Dec(421, 10)) @@
    (900 :> Dec(557, 10)) @@ (1000 :> Dec(719, 10))

\* The wind of run(): 10 mph from the right.
RUN_WIND_SPEED == 10

RUN_WIND_ANGLE == 90

--------------------------------------------------------------------------
(* Bounds and input sets.                                                  *)

\* Largest key kept in the drift table of the narrow-coverage start-up.
NarrowDriftMaxKey == 500

\* Query distances of direct calls, in tenths of a yard: a grid, and the
\* tenth below and above each grid point.
QueryStep == 250

MaxQueryIdx == 60

QueryDistances ==
    {Norm(k * QueryStep + j, 10) : k \in 0..MaxQueryIdx, j \in {-1, 0, 1}}
        \ {Norm(-1, 10)}

WindStep == 5

MaxWindIdx == 3

WindSpeeds == {k * WindStep : k \in 0..MaxWindIdx}

\* Angles in degrees whose sine is rational.
WindAngles == {-90, -30, 0, 30, 90, 150, 180, 210, 270, 330, 360}

\* Sensor distances in centimetres (bytes 2-3 of the frame, 16 bits): a
\* grid, and the whole hundreds of yards.
CmStep == 4000

MaxCmIdx == 16

HundredYardsCm == int(RMul(FromInt(100), CM_PER_YARD))

SensorCm ==
    {c \in {k * CmStep : k \in 0..MaxCmIdx}
            \cup {k * HundredYardsCm : k \in 0..MaxCmIdx} : c < 65536}

\* Battery files: unreadable (None) or a parsed integer.
BatteryReadings == {None, <<0>>, <<100>>}

DriftTables ==
    {DRIFT_TABLE,
     [k \in {x \in DOMAIN DRIFT_TABLE : x <= NarrowDriftMaxKey} |->
        DRIFT_TABLE[k]]}

--------------------------------------------------------------------------
VARIABLES
    drop_data,          \* self.drop_data
    WIND_DRIFT_DATA,    \* BallisticCalculator.WIND_DRIFT_DATA
    pc,                 \* "ready", "cycle", "sleep", "backoff", "stopped"
    interrupted,        \* a KeyboardInterrupt was delivered
    distance_yards,     \* run()'s locals, as of the last cycle
    battery,
    elevation,
    windage,
    logged,             \* the records logged by the current cycle
    shown,              \* the frame the current cycle sent to the display
    call                \* the direct call that has just returned, or None

vars == <<drop_data, WIND_DRIFT_DATA, pc, interrupted, distance_yards,
          battery, elevation, windage, logged, shown, call>>

--------------------------------------------------------------------------
(* Table lookups.                                                          *)

Min(S) == CHOOSE x \in S : \A y \in S : x <= y

Max(S) == CHOOSE x \in S : \A y \in S : y <= x

\* sorted(table.keys())
RECURSIVE sorted(_)
sorted(S) ==
    IF S = {} THEN <<>> ELSE <<Min(S)>> \o sorted(S \ {Min(S)})

\* distance_yards in table: a float equal to an integer key.
InTable(q, table) == q[2] = 1 /\ q[1] \in DOMAIN table

\* Mutant of Interpolate: the lower neighbour's value, no interpolation.
InterpolateLower(q, d1, d2, v1, v2) == v1

\* v1 + (v2 - v1) * ((q - d1) / (d2 - d1)), operation by operation.
Interpolate(q, d1, d2, v1, v2) ==
    RAdd(v1, RMul(RSub(v2, v1),
                  RDiv(RSub(q, FromInt(d1)), FromInt(d2 - d1))))

\* Mutant of Between: the upper bound of the bracket is not tested.
BetweenNoUpper(q, d1, d2) == RLt(FromInt(d1), q)

\* d1 < q < d2
Between(q, d1, d2) == RLt(FromInt(d1), q) /\ RLt(q, FromInt(d2))

\* The for loop of get_bullet_drop from index i on: the first bracketing
\* pair returns.
RECURSIVE DropScan(_, _, _, _)
DropScan(table, distances, q, i) ==
    IF i > Len(distances) - 1 THEN None
    ELSE IF Between(q, distances[i], distances[i + 1])
         THEN Interpolate(q, distances[i], distances[i + 1],
                          table[distances[i]], table[distances[i + 1]])
         ELSE DropScan(table, distances, q, i + 1)

BelowOrAbove(q, distances) ==
    \/ RLt(q, FromInt(distances[1]))
    \/ RLt(FromInt(distances[Len(distances)]), q)

get_bullet_drop(q) ==
    LET distances == sorted(DOMAIN drop_data)
    IN  IF InTable(q, drop_data) THEN drop_data[q[1]]
        ELSE IF BelowOrAbove(q, distances) THEN None
        ELSE DropScan(drop_data, distances, q, 1)

\* The for loop of calculate_wind_drift from index i on: it has no return,
\* every bracketing pair overwrites base_drift.
RECURSIVE DriftScan(_, _, _, _, _)
DriftScan(table, distances, q, i, base_drift) ==
    IF i > Len(distances) - 1 THEN base_drift
    ELSE DriftScan(table, distances, q, i + 1,
            IF Between(q, distances[i], distances[i + 1])
            THEN Interpolate(q, distances[i], distances[i + 1],
                             table[distances[i]], table[distances[i + 1]])
            ELSE base_drift)

\* Lines 87-98 of calculate_wind_drift: base_drift, or None.
base_drift_lookup(q) ==
    LET distances == sorted(DOMAIN WIND_DRIFT_DATA)
    IN  IF InTable(q, WIND_DRIFT_DATA) THEN WIND_DRIFT_DATA[q[1]]
        ELSE DriftScan(WIND_DRIFT_DATA, distances, q, 1, None)

--------------------------------------------------------------------------
(* Wind resolver.                                                          *)

\* math.sin(math.radians(a)) as <<n, d, e>>: the exact sine n/d, and the
\* sign e of the IEEE result where the exact sine is zero.
sin_radians(a) ==
    CASE a = 0   -> <<0, 1, 0>>
      [] a = 30  -> <<1, 2, 0>>
      [] a = 90  -> <<1, 1, 0>>
      [] a = 150 -> <<1, 2, 0>>
      [] a = 180 -> <<0, 1, 1>>
      [] a = 210 -> <<-1, 2, 0>>
      [] a = 270 -> <<-1, 1, 0>>
      [] a = 330 -> <<-1, 2, 0>>
      [] a = 360 -> <<0, 1, -1>>
      [] a = -30 -> <<-1, 2, 0>>
      [] a = -90 -> <<-1, 1, 0>>

Rat(x) == <<x[1], x[2]>>

\* x < 0 for a value with residue.
IsNegative(x) == x[1] < 0 \/ (x[1] = 0 /\ x[3] < 0)

FNeg(x) == <<-x[1], x[2], -x[3]>>

FAbs(x) == IF IsNegative(x) THEN FNeg(x) ELSE x

\* r * x for a rational r and a value x with residue.
FScale(r, x) ==
    LET p == RMul(r, Rat(x)) IN <<p[1], p[2], Sgn(r[1]) * x[3]>>

\* Mutant of FromRight: the lower bound 0 <= wind_angle is dropped.
FromRightNoLowerBound(wind_angle) == wind_angle <= 180

\* The sign test of line 110.
FromRight(wind_angle) == 0 <= wind_angle /\ wind_angle <= 180

\* abs(wind_speed * math.sin(wind_angle_rad))
crosswind_of(wind_speed, wind_angle) ==
    FAbs(FScale(FromInt(wind_speed), sin_radians(wind_angle)))

\* base_drift * (crosswind / 10.0)
actual_drift_of(base_drift, crosswind) ==
    FScale(base_drift, FScale(Dec(1, 10), crosswind))

calculate_wind_drift(q, wind_speed, wind_angle) ==
    LET base_drift   == base_drift_lookup(q)
        actual_drift ==
            actual_drift_of(base_drift, crosswind_of(wind_speed, wind_angle))
    IN  IF base_drift = None THEN None
        ELSE IF FromRight(wind_angle) THEN FNeg(actual_drift)
        ELSE actual_drift

--------------------------------------------------------------------------
(* Adjustment engine.                                                      *)

\* offset / (MOA_CONVERSION * (distance_yards / 100))
moa_of(offset, q) ==
    RDiv(offset, RMul(MOA_CONVERSION, RDiv(q, FromInt(100))))

\* Mutant of clicks_of: truncation instead of rounding.
clicks_of_truncated(moa) ==
    Abs(int(RMul(moa, FromInt(CLICKS_PER_MOA))))

\* Mutant of clicks_of: abs() is left out.
clicks_of_signed(moa) == round(RMul(moa, FromInt(CLICKS_PER_MOA)))

\* abs(round(moa * CLICKS_PER_MOA))
clicks_of(moa) == Abs(round(RMul(moa, FromInt(CLICKS_PER_MOA))))

elevation_direction_of(drop_inches) ==
    IF drop_inches[1] < 0 THEN "UP" ELSE "DOWN"

windage_direction_of(drift_inches) ==
    IF IsNegative(drift_inches) THEN "LEFT" ELSE "RIGHT"

ElevationData(clicks, direction) == <<clicks, direction>>

WindageData(clicks, direction) == <<clicks, direction>>

\* Mutant of calculate_adjustments: zero clicks instead of None when the
\* drop lookup has no data.
calculate_adjustments_zero(q, wind_speed, wind_angle) ==
    LET drop_inches  == get_bullet_drop(q)
        elev         == ElevationData(clicks_of(moa_of(drop_inches, q)),
                                      elevation_direction_of(drop_inches))
        drift_inches == calculate_wind_drift(q, wind_speed, wind_angle)
        wind         == WindageData(clicks_of(moa_of(Rat(drift_inches), q)),
                                    windage_direction_of(drift_inches))
    IN  IF drop_inches = None THEN <<ElevationData(0, "DOWN"), None>>
        ELSE IF q[1] = 0 THEN <<"ZeroDivisionError">>
        ELSE IF drift_inches = None THEN <<elev, None>>
        ELSE <<elev, wind>>

\* Mutant of calculate_adjustments: nothing is returned when the drift
\* lookup has no data.
calculate_adjustments_all_or_nothing(q, wind_speed, wind_angle) ==
    LET drop_inches  == get_bullet_drop(q)
        elev         == ElevationData(clicks_of(moa_of(drop_inches, q)),
                                      elevation_direction_of(drop_inches))
        drift_inches == calculate_wind_drift(q, wind_speed, wind_angle)
        wind         == WindageData(clicks_of(moa_of(Rat(drift_inches), q)),
                                    windage_direction_of(drift_inches))
    IN  IF drop_inches = None THEN <<None, None>>
        ELSE IF q[1] = 0 THEN <<"ZeroDivisionError">>
        ELSE IF drift_inches = None THEN <<None, None>>
        ELSE <<elev, wind>>

\* What calculate_adjustments does: it returns the pair (elevation,
\* windage), or the division of line 122 raises, given as a 1-tuple.
calculate_adjustments(q, wind_speed, wind_angle) ==
    LET drop_inches  == get_bullet_drop(q)
        elev         == ElevationData(clicks_of(moa_of(drop_inches, q)),
                                      elevation_direction_of(drop_inches))
        drift_inches == calculate_wind_drift(q, wind_speed, wind_angle)
        wind         == WindageData(clicks_of(moa_of(Rat(drift_inches), q)),
                                    windage_direction_of(drift_inches))
    IN  IF drop_inches = None THEN <<None, None>>
        ELSE IF q[1] = 0 THEN <<"ZeroDivisionError">>
        ELSE IF drift_inches = None THEN <<elev, None>>
        ELSE <<elev, wind>>

--------------------------------------------------------------------------
(* Boundary collaborators.                                                 *)

\* What self.ser.read(9) can give after the trigger frame: a well-formed
\* frame carrying cm in bytes 2-3, a short read (timeout), a frame without
\* the 0x59 0x59 header, or a serial.SerialException.
SensorResponses ==
    {<<"frame", cm>> : cm \in SensorCm}
        \cup {<<"short", 0>>, <<"badsync", 0>>, <<"SerialException", 0>>}

get_distance(response) ==
    IF response[1] = "frame"
    THEN round1(RDiv(FromInt(response[2]), CM_PER_YARD))
    ELSE None

\* if distance_yards: None and 0.0 are false.
Truthy(distance) == distance # None /\ distance[1] # 0

\* The text the frame carries: int(distance), the elevation line, the
\* windage line if windage, the battery field if battery is not None.
Frame(distance, elev, wind, bat) == <<int(distance), elev, wind, bat>>

\* The record of logger.info in run(): distance, elevation, and the
\* windage fields, 0 and 'none' without windage.  Other log records are
\* pairs <<level, text>>.
InfoRecord(distance, elev, wind) ==
    <<"info", distance, elev,
      IF wind # None THEN wind ELSE <<0, "none">>>>

\* display_oled: the frame reaches the display unless the driver raises,
\* which is caught and logged inside display_oled.
display_oled(distance, elev, wind, bat, fault) ==
    IF fault THEN None ELSE Frame(distance, elev, wind, bat)

NoCall == [op |-> "none", distance |-> None, wind_speed |-> 0,
           wind_angle |-> 0, result |-> None]

--------------------------------------------------------------------------
(* The state machine.                                                      *)

Init ==
    /\ drop_data = DROP_TABLE
    /\ WIND_DRIFT_DATA \in DriftTables
    /\ pc = "ready"
    /\ interrupted = FALSE
    /\ distance_yards = None
    /\ battery = None
    /\ elevation = None
    /\ windage = None
    /\ logged = <<>>
    /\ shown = None
    /\ call = NoCall

loopVars == <<pc, interrupted, distance_yards, battery, elevation, windage,
              logged, shown>>

tables == <<drop_data, WIND_DRIFT_DATA>>

\* Mutant of CallGetBulletDrop: an interpolated value is cached in the
\* table under its distance.
CallGetBulletDropCaching ==
    /\ pc = "ready" /\ call = NoCall
    /\ \E q \in QueryDistances :
          /\ call' = [op |-> "get_bullet_drop", distance |-> q,
                      wind_speed |-> 0, wind_angle |-> 0,
                      result |-> get_bullet_drop(q)]
          /\ drop_data' =
                IF q[2] = 1 /\ get_bullet_drop(q) # None
                THEN (q[1] :> get_bullet_drop(q)) @@ drop_data
                ELSE drop_data
    /\ UNCHANGED <<WIND_DRIFT_DATA, loopVars>>

\* A client calls get_bullet_drop(q) before run() is entered.
CallGetBulletDrop ==
    /\ pc = "ready" /\ call = NoCall
    /\ \E q \in QueryDistances :
          call' = [op |-> "get_bullet_drop", distance |-> q,
                   wind_speed |-> 0, wind_angle |-> 0,
                   result |-> get_bullet_drop(q)]
    /\ UNCHANGED <<tables, loopVars>>

CallCalculateWindDrift ==
    /\ pc = "ready" /\ call = NoCall
    /\ \E q \in QueryDistances, ws \in WindSpeeds, wa \in WindAngles :
          call' = [op |-> "calculate_wind_drift", distance |-> q,
                   wind_speed |-> ws, wind_angle |-> wa,
                   result |-> calculate_wind_drift(q, ws, wa)]
    /\ UNCHANGED <<tables, loopVars>>

CallCalculateAdjustments ==
    /\ pc = "ready" /\ call = NoCall
    /\ \E q \in QueryDistances, ws \in WindSpeeds, wa \in WindAngles :
          call' = [op |-> "calculate_adjustments", distance |-> q,
                   wind_speed |-> ws, wind_angle |-> wa,
                   result |-> calculate_adjustments(q, ws, wa)]
    /\ UNCHANGED <<tables, loopVars>>

\* The caller drops the returned value.
Return ==
    /\ call # NoCall
    /\ call' = NoCall
    /\ UNCHANGED <<tables, loopVars>>

\* run() is entered.
Run ==
    /\ pc = "ready" /\ call = NoCall
    /\ pc' = "cycle"
    /\ logged' = <<<<"info", "Starting calculator with wind compensation">>>>
    /\ UNCHANGED <<tables, interrupted, distance_yards, battery, elevation,
                   windage, shown, call>>

\* Mutant of CycleBody: the elevation test is made outside the distance
\* test, on whatever the local holds.
CycleBodyStale(response, d, adj, bat, fault) ==
    LET elev == IF Truthy(d) THEN adj[1] ELSE elevation
        wind == IF Truthy(d) THEN adj[2] ELSE windage
        render == elev # None
        frame  == IF d = None THEN None
                  ELSE display_oled(d, elev, wind, bat, fault)
    IN  /\ distance_yards' = d
        /\ battery' = bat
        /\ elevation' = elev
        /\ windage' = wind
        /\ logged' = (IF render THEN <<InfoRecord(d, elev, wind)>>
                      ELSE <<>>)
        /\ shown' = (IF render THEN frame ELSE None)

\* One pass of the try body, lines 212-226, with what it logs and shows:
\* d is what get_distance returned, adj what calculate_adjustments returns
\* for it.
CycleBody(response, d, adj, bat, fault) ==
    LET elev == IF Truthy(d) THEN adj[1] ELSE elevation
        wind == IF Truthy(d) THEN adj[2] ELSE windage
        render == Truthy(d) /\ adj[1] # None
        frame  == display_oled(d, adj[1], adj[2], bat, fault)
    IN  /\ distance_yards' = d
        /\ battery' = bat
        /\ elevation' = elev
        /\ windage' = wind
        /\ logged' = (IF response[1] = "SerialException"
                      THEN <<<<"error", "Serial error">>>> ELSE <<>>)
                     \o (IF render THEN <<InfoRecord(d, adj[1], adj[2])>>
                         ELSE <<>>)
                     \o (IF render /\ fault THEN <<<<"error", "Display error">>>>
                         ELSE <<>>)
        /\ shown' = (IF render THEN frame ELSE None)

Cycle ==
    /\ pc = "cycle"
    /\ \E response \in SensorResponses :
          \E d \in {get_distance(response)} :
             \E adj \in {IF Truthy(d)
                          THEN calculate_adjustments(d, RUN_WIND_SPEED,
                                                     RUN_WIND_ANGLE)
                          ELSE <<None, None>>} :
                \E bat \in BatteryReadings, fault \in BOOLEAN :
                   CycleBody(response, d, adj, bat, fault)
    /\ pc' = "sleep"
    /\ UNCHANGED <<tables, interrupted, call>>

\* Mutant of CycleError: the handler leaves the loop.
CycleErrorBreaks ==
    /\ pc = "cycle"
    /\ pc' = "stopped"
    /\ logged' = <<<<"error", "Runtime error">>>>
    /\ shown' = None
    /\ UNCHANGED <<tables, interrupted, distance_yards, battery, elevation,
                   windage, call>>

\* An exception that get_distance does not catch reaches line 233.
CycleError ==
    /\ pc = "cycle"
    /\ pc' = "backoff"
    /\ logged' = <<<<"error", "Runtime error">>>>
    /\ shown' = None
    /\ UNCHANGED <<tables, interrupted, distance_yards, battery, elevation,
                   windage, call>>

\* time.sleep(0.5) returns.
Sleep ==
    /\ pc = "sleep"
    /\ pc' = "cycle"
    /\ UNCHANGED <<tables, interrupted, distance_yards, battery, elevation,
                   windage, logged, shown, call>>

\* time.sleep(1) returns.
Backoff ==
    /\ pc = "backoff"
    /\ pc' = "cycle"
    /\ UNCHANGED <<tables, interrupted, distance_yards, battery, elevation,
                   windage, logged, shown, call>>

\* Ctrl-C while run() executes: run() ends and its locals go.
KeyboardInterrupt ==
    /\ pc \in {"cycle", "sleep", "backoff"}
    /\ pc' = "stopped"
    /\ interrupted' = TRUE
    /\ distance_yards' = None
    /\ battery' = None
    /\ elevation' = None
    /\ windage' = None
    /\ logged' = (IF pc = "backoff" THEN <<>>
                  ELSE <<<<"info", "Program terminated by user">>>>)
    /\ shown' = None
    /\ UNCHANGED <<tables, call>>

Next ==
    \/ CallGetBulletDrop
    \/ CallCalculateWindDrift
    \/ CallCalculateAdjustments
    \/ Return
    \/ Run
    \/ Cycle
    \/ CycleError
    \/ Sleep
    \/ Backoff
    \/ KeyboardInterrupt

Spec == Init /\ [][Next]_vars

\* The program as the script runs it (lines 237-240): run() is entered
\* right after construction, no client calls.
MainNext ==
    \/ Run
    \/ Cycle
    \/ CycleError
    \/ Sleep
    \/ Backoff
    \/ KeyboardInterrupt

\* time.sleep(0.5) and time.sleep(1) return: a pass that has ended is
\* followed by the next one unless a KeyboardInterrupt comes first.
FairSpec ==
    /\ Init /\ [][MainNext]_vars
    /\ WF_vars(Sleep) /\ WF_vars(Backoff)

--------------------------------------------------------------------------
(* Reference definitions used by the properties.                           *)

Keys(table) == DOMAIN table

\* min key <= q <= max key
InRange(table, q) ==
    /\ ~ RLt(q, FromInt(Min(Keys(table))))
    /\ ~ RLt(FromInt(Max(Keys(table))), q)

\* v is the piecewise-linear value of table at q: the stored value at a
\* key, else the point of abscissa q on the segment through the two
\* neighbouring entries: (v - v1) * (d2 - d1) = (v2 - v1) * (q - d1).
IsPiecewiseLinear(table, q, v) ==
    IF q[2] = 1 /\ q[1] \in Keys(table) THEN v = table[q[1]]
    ELSE LET d1 == Max({k \in Keys(table) : RLt(FromInt(k), q)})
             d2 == Min({k \in Keys(table) : RLt(q, FromInt(k))})
         IN  /\ v # None
             /\ RMul(RSub(v, table[d1]), FromInt(d2 - d1))
                  = RMul(RSub(table[d2], table[d1]), RSub(q, FromInt(d1)))

IsDropCall == call.op = "get_bullet_drop"

IsDriftCall == call.op = "calculate_wind_drift"

IsAdjustCall == call.op = "calculate_adjustments"

--------------------------------------------------------------------------
(* Properties.                                                             *)

\* C1: for a query distance inside the table range, get_bullet_drop and
\* the base-drift lookup of calculate_wind_drift give the piecewise-linear
\* value of their table: the stored value at a key, the linear
\* interpolation of the two neighbouring entries otherwise.
C1_LookupIsPiecewiseLinear ==
    /\ (IsDropCall /\ InRange(drop_data, call.distance))
          => IsPiecewiseLinear(drop_data, call.distance, call.result)
    /\ (IsDriftCall /\ InRange(WIND_DRIFT_DATA, call.distance))
          => IsPiecewiseLinear(WIND_DRIFT_DATA, call.distance,
                               base_drift_lookup(call.distance))

\* get_bullet_drop(550) has returned -103.35, the midpoint of the 500 and
\* 600 entries.
C1_Witness ==
    /\ IsDropCall
    /\ call.distance = FromInt(550)
    /\ call.result = Dec(-10335, 100)

\* C2: for a query distance below the smallest key or above the largest
\* key, get_bullet_drop returns None and calculate_wind_drift returns None
\* whatever the wind speed and angle.
C2_OutOfRangeIsNone ==
    /\ (IsDropCall /\ ~ InRange(drop_data, call.distance))
          => call.result = None
    /\ (IsDriftCall /\ ~ InRange(WIND_DRIFT_DATA, call.distance))
          => call.result = None

\* calculate_wind_drift(1500, 10, 90) has returned None.
C2_Witness ==
    /\ IsDriftCall
    /\ call.distance = FromInt(1500)
    /\ call.wind_speed = 10 /\ call.wind_angle = 90
    /\ call.result = None

\* The adjustment that run() asks for with the reading d.
RunAdjustments(d) ==
    calculate_adjustments(d, RUN_WIND_SPEED, RUN_WIND_ANGLE)

\* C3: when the drop lookup has no data for the distance,
\* calculate_adjustments returns (None, None) whatever the wind speed and
\* angle, and returns rather than raises.
C3_NoDropGivesNoResult ==
    (IsAdjustCall /\ get_bullet_drop(call.distance) = None)
        => call.result = <<None, None>>

\* calculate_adjustments(50, 10, 270) has returned (None, None).
C3_Witness ==
    /\ IsAdjustCall
    /\ call.distance = FromInt(50)
    /\ call.wind_speed = 10 /\ call.wind_angle = 270
    /\ call.result = <<None, None>>

IsResultRecord(rec) == Len(rec) = 4

LoggedResult == \E i \in 1..Len(logged) : IsResultRecord(logged[i])

LoggedDisplayError ==
    \E i \in 1..Len(logged) : logged[i] = <<"error", "Display error">>

\* The elevation result for distance q, from the drop table.
ElevationFor(q) ==
    ElevationData(clicks_of(moa_of(get_bullet_drop(q), q)),
                  elevation_direction_of(get_bullet_drop(q)))

\* Drop data but no drift data for distance q.
DriftOnlyMissing(q) ==
    /\ q # None /\ q[1] # 0
    /\ get_bullet_drop(q) # None
    /\ base_drift_lookup(q) = None

\* C4: when the drop lookup has data and the drift lookup has none for
\* the same distance, calculate_adjustments returns the elevation result
\* with None for windage, and the cycle of run() that reads such a
\* distance logs the result and sends a frame without the windage line.
C4_PartialResult ==
    /\ (IsAdjustCall /\ DriftOnlyMissing(call.distance))
          => call.result = <<ElevationFor(call.distance), None>>
    /\ (pc = "sleep" /\ DriftOnlyMissing(distance_yards))
          => /\ elevation = ElevationFor(distance_yards)
             /\ windage = None
             /\ LoggedResult
             /\ (~ LoggedDisplayError) => shown # None
             /\ shown # None => (shown[2] = elevation /\ shown[3] = None)

\* A cycle has read a distance the narrow drift table does not cover and
\* has sent a frame with the elevation line and no windage line.
C4_Witness ==
    /\ pc = "sleep"
    /\ DriftOnlyMissing(distance_yards)
    /\ shown # None
    /\ shown[2] = elevation /\ elevation # None
    /\ shown[3] = None

\* |wind_speed * sin(wind_angle)| from the exact sine.
CrosswindMagnitude(wind_speed, wind_angle) ==
    RAbs(RMul(FromInt(wind_speed), Rat(sin_radians(wind_angle))))

\* base_drift * (crosswind / 10)
DriftMagnitude(q, wind_speed, wind_angle) ==
    RMul(base_drift_lookup(q),
         RDiv(CrosswindMagnitude(wind_speed, wind_angle), FromInt(10)))

\* C5: for a distance with drift data, calculate_wind_drift returns minus
\* the magnitude base_drift * (crosswind / 10) when 0 <= wind_angle <= 180
\* and plus the magnitude for any other angle; the windage direction of
\* calculate_adjustments is LEFT exactly when that drift is below zero and
\* RIGHT otherwise, a drift of zero included.
C5_DriftSignAndDirection ==
    /\ (IsDriftCall /\ call.result # None)
          => /\ Rat(call.result) =
                  IF 0 <= call.wind_angle /\ call.wind_angle <= 180
                  THEN RNeg(DriftMagnitude(call.distance, call.wind_speed,
                                           call.wind_angle))
                  ELSE DriftMagnitude(call.distance, call.wind_speed,
                                      call.wind_angle)
             /\ (0 <= call.wind_angle /\ call.wind_angle <= 180)
                  => ~ IsNegative(FNeg(call.result))
             /\ ~ (0 <= call.wind_angle /\ call.wind_angle <= 180)
                  => ~ IsNegative(call.result)
    /\ (IsAdjustCall /\ Len(call.result) = 2 /\ call.result[2] # None)
          => (call.result[2][2] = "LEFT"
                <=> IsNegative(calculate_wind_drift(call.distance,
                               call.wind_speed, call.wind_angle)))
    /\ (IsAdjustCall /\ Len(call.result) = 2 /\ call.result[2] # None)
          => call.result[2][2] \in {"LEFT", "RIGHT"}

\* calculate_wind_drift(500, 10, 270) has returned +14.6.
C5_Witness ==
    /\ IsDriftCall
    /\ call.distance = FromInt(500)
    /\ call.wind_speed = 10 /\ call.wind_angle = 270
    /\ call.result = <<73, 5, 0>>

\* |offset| * CLICKS_PER_MOA / (MOA_CONVERSION * (q / 100)), the number
\* that is rounded to clicks.
ClicksArgument(offset, q) ==
    RDiv(RMul(RAbs(offset), FromInt(CLICKS_PER_MOA * 100)),
         RMul(MOA_CONVERSION, q))

\* c is the integer nearest to x >= 0, the even one of the two on a tie.
IsRounded(c, x) ==
    LET gap == Abs(c * x[2] - x[1])
    IN  /\ c \in Nat
        /\ gap <= x[2] - gap
        /\ (gap = x[2] - gap) => c % 2 = 0

\* C6: for a distance with data, calculate_adjustments gives
\* clicks = round(|moa| * CLICKS_PER_MOA) with
\* moa = offset / (MOA_CONVERSION * (distance / 100)) for the drop and for
\* the drift, elevation UP when the drop is below zero and DOWN otherwise;
\* distance 500 with drop -81.23 gives 62 clicks UP.  The elevation clicks
\* of a cycle of run() are rounded the same way.
C6_ClicksAndElevationDirection ==
    /\ (pc = "sleep" /\ Truthy(distance_yards)
          /\ get_bullet_drop(distance_yards) # None)
          => /\ elevation # None
             /\ IsRounded(elevation[1],
                          ClicksArgument(get_bullet_drop(distance_yards),
                                         distance_yards))
    /\ (IsAdjustCall /\ Len(call.result) = 2 /\ call.result[1] # None)
        => /\ IsRounded(call.result[1][1],
                        ClicksArgument(get_bullet_drop(call.distance),
                                       call.distance))
           /\ call.result[1][2] =
                 (IF RLt(get_bullet_drop(call.distance), FromInt(0))
                  THEN "UP" ELSE "DOWN")
           /\ call.result[2] # None
                 => IsRounded(call.result[2][1],
                       ClicksArgument(
                          Rat(calculate_wind_drift(call.distance,
                                call.wind_speed, call.wind_angle)),
                          call.distance))
           /\ (call.distance = FromInt(500)
                 /\ get_bullet_drop(call.distance) = Dec(-8123, 100))
                 => call.result[1] = <<62, "UP">>

\* calculate_adjustments(500, ...) has returned 62 clicks UP for the drop
\* -81.23.
C6_Witness ==
    /\ IsAdjustCall
    /\ call.distance = FromInt(500)
    /\ get_bullet_drop(call.distance) = Dec(-8123, 100)
    /\ call.result[1] = <<62, "UP">>
    /\ call.result[2] # None

IsElevationData(e) == e[1] \in Nat /\ e[2] \in {"UP", "DOWN"}

IsWindageData(w) == w[1] \in Nat /\ w[2] \in {"LEFT", "RIGHT"}

\* C7: in every result calculate_adjustments returns, for a direct call or
\* for run(), the click count is a non-negative integer, the elevation
\* direction is UP or DOWN and the windage direction is LEFT or RIGHT.
C7_ResultsWellFormed ==
    /\ (IsAdjustCall /\ Len(call.result) = 2)
          => /\ call.result[1] # None => IsElevationData(call.result[1])
             /\ call.result[2] # None => IsWindageData(call.result[2])
    /\ elevation # None => IsElevationData(elevation)
    /\ windage # None => IsWindageData(windage)

\* calculate_adjustments has returned an elevation and a windage result
\* with clicks above zero.
C7_Witness ==
    /\ IsAdjustCall
    /\ Len(call.result) = 2
    /\ call.result[1] # None /\ call.result[1][1] > 0
    /\ call.result[2] # None /\ call.result[2][1] > 0

\* C8: a cycle of run() writes the display and logs a result only if it
\* obtained a distance reading and an elevation result computed from that
\* reading; what it logs and shows is that reading and that result.
C8_RenderOnlyFreshResult ==
    (shown # None \/ LoggedResult)
        => /\ distance_yards # None /\ distance_yards[1] # 0
           /\ elevation # None
           /\ <<elevation, windage>> = RunAdjustments(distance_yards)
           /\ LoggedResult
           /\ \A i \in 1..Len(logged) :
                 IsResultRecord(logged[i])
                    => logged[i] = <<"info", distance_yards, elevation,
                                     IF windage = None THEN <<0, "none">>
                                     ELSE windage>>
           /\ shown # None
                 => shown = <<int(distance_yards), elevation, windage,
                              battery>>

\* A cycle that got no usable reading, after a cycle that rendered: it
\* logged no result and wrote no frame, with the earlier elevation still
\* in the local.
C8_Witness ==
    /\ pc = "sleep"
    /\ ~ Truthy(distance_yards)
    /\ elevation # None
    /\ shown = None
    /\ ~ LoggedResult

\* C9: run() ends only by a KeyboardInterrupt, and after a cycle, failed
\* or not, it starts another cycle unless it is interrupted.
C9_LoopKeepsRunning ==
    /\ [](pc = "stopped" => interrupted)
    /\ (pc \in {"sleep", "backoff"}) ~> (pc = "cycle" \/ interrupted)

\* The loop is at the top of a cycle again after line 233 caught an
\* exception.
C9_Witness ==
    /\ pc = "cycle"
    /\ logged = <<<<"error", "Runtime error">>>>
    /\ ~ interrupted

\* C10: no call and no cycle changes the drop table or the wind-drift
\* table, so they hold their start-up entries and a call repeated with the
\* same distance returns what it returned.
C10_TablesUnchanged ==
    /\ [][drop_data' = drop_data
            /\ WIND_DRIFT_DATA' = WIND_DRIFT_DATA]_vars
    /\ [](drop_data = DROP_TABLE /\ WIND_DRIFT_DATA \in DriftTables)
    /\ [](IsDropCall => call.result = get_bullet_drop(call.distance))

\* A cycle has computed both results after run() was entered.
C10_Witness ==
    /\ pc = "cycle"
    /\ drop_data = DROP_TABLE
    /\ WIND_DRIFT_DATA = DRIFT_TABLE
    /\ elevation # None /\ windage # None
    /\ LoggedResult

====
